---- MODULE Spec2Model ----
(***************************************************************************)
(* State-machine model of TableFacadeInitializer                           *)
(* (libs/sdk-ui-pivot/src/impl/tableFacadeInitializer.ts).                 *)
(*                                                                         *)
(* One instance of the initializer is modelled together with its           *)
(* collaborators: the prepared execution (execute), the execution result   *)
(* (readWindow) and the configuration callbacks.  Every promise reaction   *)
(* of initialize() is one action; the settlement of a backend promise is   *)
(* an action of the environment.  abandon() may be called by the owner     *)
(* between any two steps, and by a callback while it is being invoked.     *)
(***************************************************************************)
EXTENDS Integers, Sequences, FiniteSets

\* ------------------------------------------------------------------ bounds
NumExecutions == 2
NumResults == 2
NumDataViews == 2
MaxAbandonCalls == 3
NumPageSizes == 2

Executions == 1..NumExecutions
Results == 1..NumResults
DataViews == 1..NumDataViews
PageSizes == 1..NumPageSizes

\* width of the window read from the execution result
COLS_PER_PAGE == 1000

\* ------------------------------------------------------------------ values
NoResult == 0
NoDataView == 0

\* errors a backend promise can reject with: abeType plus, for NO_DATA,
\* the optional attached data view
NoError == [kind |-> "none", dataView |-> NoDataView]
ThrownError == [kind |-> "THROWN", dataView |-> NoDataView]
BackendErrors ==
    {[kind |-> "UNEXPECTED_HTTP", dataView |-> NoDataView],
     [kind |-> "OTHER", dataView |-> NoDataView]}
    \cup {[kind |-> "NO_DATA", dataView |-> d] : d \in DataViews \cup {NoDataView}}

isNoDataError(error) == error.kind = "NO_DATA"
isUnexpectedResponseError(error) == error.kind = "UNEXPECTED_HTTP"

\* convertError wraps the caught value into an SDK error
NoSdkError == [converted |-> FALSE, cause |-> NoError]
convertError(error) == [converted |-> TRUE, cause |-> error]

\* the value `undefined' and the table facade
Undefined == [tag |-> "undefined", result |-> NoResult, dataView |-> NoDataView]
createTableFacade(res, dv) == [tag |-> "TableFacade", result |-> res, dataView |-> dv]

\* available drill targets, tagged by what they were computed from
NoTargets == [from |-> "none", result |-> NoResult, dataView |-> NoDataView]
tableGetAvailableDrillTargets(table) ==
    [from |-> "facade", result |-> table.result, dataView |-> table.dataView]
getAvailableDrillTargets(dv) ==
    [from |-> "dataView", result |-> NoResult, dataView |-> dv]
getAvailableDrillTargetsFromExecutionResult(res) ==
    [from |-> "result", result |-> res, dataView |-> NoDataView]

\* ------------------------------------------------------------------ events
\* One entry of the trace: a callback invocation, a backend call, the
\* settlement of a backend promise, or an abandon() that took effect.
\* `abandoned' is the value of the flag when the entry was appended.
Ev ==
    [name |-> "", isLoading |-> FALSE, dataView |-> NoDataView,
     targets |-> NoTargets, table |-> Undefined, error |-> NoSdkError,
     execution |-> 0, via |-> "", abandoned |-> FALSE,
     offset |-> <<0, 0>>, size |-> <<0, 0>>]

onLoadingChanged(isLoading) ==
    [Ev EXCEPT !.name = "onLoadingChanged", !.isLoading = isLoading, !.via = "config"]
onExportReady(table) ==
    [Ev EXCEPT !.name = "onExportReady", !.table = table, !.via = "config"]
pushData(via, dv, targets) ==
    [Ev EXCEPT !.name = "pushData", !.dataView = dv, !.targets = targets, !.via = via]
onError(sdkError, exec) ==
    [Ev EXCEPT !.name = "onError", !.error = sdkError, !.execution = exec, !.via = "config"]
Mark(name) == [Ev EXCEPT !.name = name]

CallbackNames == {"onLoadingChanged", "onExportReady", "pushData", "onError"}

VARIABLES
    abandoned,            \* TableFacadeInitializer.abandoned
    pc,                   \* the reaction of initialize() that runs next
    execution,            \* this.execution
    result,               \* the execution result execute() resolved with
    dataView,             \* the data view readWindow() resolved with
    error,                \* the value the next catch handler receives
    promise,              \* the promise initialize() returned
    log,                  \* trace of events
    abandonCalls,         \* number of abandon() calls so far
    invariantViolations,  \* number of abandon() calls that threw
    env                   \* behaviour of the collaborators

vars == <<abandoned, pc, execution, result, dataView, error, promise, log,
          abandonCalls, invariantViolations, env>>

\* state of the DashboardTester harness (modelled further below); the
\* initializer leaves it alone
VARIABLES
    monitoredActions,   \* DashboardTester.monitoredActions
    capturedActions,    \* DashboardTester.capturedActions
    promises,           \* the promises created for monitored actions
    forwarded,          \* the actions handed to next(action)
    waits,              \* the promises returned by waitFor, with their timers
    now,                \* the clock of the timers
    resetAt             \* per resetMonitors() call, the number of actions
                        \* that had passed through the store before it

testerVars == <<monitoredActions, capturedActions, promises, forwarded, waits,
                now, resetAt>>

\* state of the Overlay component and of the DOM listener registry
\* (modelled further below)
VARIABLES
    isComponentMounted,  \* Overlay.isComponentMounted
    clickedInside,       \* Overlay.clickedInside
    alignment,           \* Overlay.state.alignment
    overlayProps,        \* Overlay.props (the props that enable listeners)
    listeners,           \* listeners registered on document and window
    overlayPhase,        \* life cycle of the component
    lastCall             \* the last invocation of an event handler

overlayVars == <<isComponentMounted, clickedInside, alignment, overlayProps,
                 listeners, overlayPhase, lastCall>>

\* state of the Execute component (modelled further below)
VARIABLES
    executeState,        \* Execute.state
    executeProps,        \* Execute.props (afm, resultSpec)
    executePhase,        \* life cycle of the component
    outstanding,         \* getData() calls the data table has not answered
    emitted              \* events emitted through onLoadingChanged / onError

executeVars == <<executeState, executeProps, executePhase, outstanding, emitted>>

TypeOK ==
    /\ abandoned \in BOOLEAN
    /\ pc \in {"created", "awaitExecute", "executeThen", "executeCatch",
               "awaitReadWindow", "readWindowThen", "readWindowCatch", "done"}
    /\ execution \in Executions
    /\ result \in Results \cup {NoResult}
    /\ dataView \in DataViews \cup {NoDataView}
    /\ error \in BackendErrors \cup {NoError, ThrownError}
    /\ promise.state \in {"none", "pending", "resolved", "rejected", "threw"}
    /\ abandonCalls \in 0..MaxAbandonCalls
    /\ invariantViolations \in 0..MaxAbandonCalls
    /\ env \in [callbacksThrow : BOOLEAN, propsPushData : BOOLEAN,
                 pageSize : PageSizes]

\* the throw position of a failure handler whose exception comes from
\* convertError(error), evaluated before onError is invoked
InConversion == -2

\* ------------------------------------------------------- callback emission
\* A reaction invokes its callbacks in program order.  `k' is the position
\* of the callback whose implementation calls abandon() (0: none does) and
\* `t' the position of the callback that throws (0: none does).  The run
\* stops at the first exception.  Calling an absent props.pushData throws
\* before anything is invoked; a throwing convertError leaves onError
\* uninvoked.
RECURSIVE Emit(_, _, _, _, _)
Emit(script, i, s, k, t) ==
    IF i > Len(script) THEN s
    ELSE IF script[i].via = "props" /\ ~env.propsPushData
    THEN [s EXCEPT !.thrown = TRUE]
    ELSE IF script[i].name = "onError" /\ t = InConversion
    THEN [s EXCEPT !.thrown = TRUE]
    ELSE LET ev == [script[i] EXCEPT !.abandoned = s.abandoned]
             called == [s EXCEPT !.log = Append(@, ev)]
             after == IF i = k
                      THEN [called EXCEPT !.abandoned = TRUE,
                                          !.abandonCalls = @ + 1,
                                          !.log = Append(@, [Mark("abandon") EXCEPT
                                                               !.abandoned = TRUE,
                                                               !.via = "callback"])]
                      ELSE called
         IN  IF i = t THEN [after EXCEPT !.thrown = TRUE]
             ELSE Emit(script, i + 1, after, k, t)

Run(script, k, t) ==
    Emit(script, 1,
         [log |-> log, abandoned |-> abandoned, abandonCalls |-> abandonCalls,
          thrown |-> FALSE],
         k, t)

\* positions at which a callback may call abandon(): the owner calls it only
\* on an instance it has not abandoned yet
AbandonPoints(script) ==
    IF abandoned \/ abandonCalls >= MaxAbandonCalls THEN {0} ELSE 0..Len(script)
ThrowPoints(script) ==
    IF env.callbacksThrow THEN 0..Len(script) ELSE {0}

\* the throw position of a reaction whose exception comes from the
\* construction of the table facade, before any callback is invoked
InConstructor == -1
ConstructorThrowPoints == IF env.callbacksThrow THEN {InConstructor} ELSE {}
ConversionThrowPoints == IF env.callbacksThrow THEN {InConversion} ELSE {}

Resolved(value) == [state |-> "resolved", value |-> value]

\* ------------------------------------------------------------------ Init
InitWith(e) ==
    /\ abandoned = FALSE
    /\ pc = "created"
    /\ execution \in Executions
    /\ result = NoResult
    /\ dataView = NoDataView
    /\ error = NoError
    /\ promise = [state |-> "none", value |-> Undefined]
    /\ log = <<>>
    /\ abandonCalls = 0
    /\ invariantViolations = 0
    /\ env = e

\* the collaborators honour their contract
WellBehaved == [callbacksThrow : {FALSE}, propsPushData : {TRUE}, pageSize : PageSizes]

\* abandon() that flips the flag instead of setting it
abandon_toggles ==
    /\ abandonCalls < MaxAbandonCalls
    /\ abandonCalls' = abandonCalls + 1
    /\ abandoned' = ~abandoned
    /\ log' = IF abandoned THEN log
              ELSE Append(log, [Mark("abandon") EXCEPT !.abandoned = TRUE,
                                                       !.via = "owner"])
    /\ UNCHANGED <<pc, execution, result, dataView, error, promise,
                   invariantViolations, env, testerVars, overlayVars, executeVars>>

\* abandon() without the invariant: a repeated call returns silently
abandon_idempotent ==
    /\ abandonCalls < MaxAbandonCalls
    /\ abandonCalls' = abandonCalls + 1
    /\ abandoned' = TRUE
    /\ log' = IF abandoned THEN log
              ELSE Append(log, [Mark("abandon") EXCEPT !.abandoned = TRUE,
                                                       !.via = "owner"])
    /\ UNCHANGED <<pc, execution, result, dataView, error, promise,
                   invariantViolations, env, testerVars, overlayVars, executeVars>>

\* abandon() that also reports the end of loading to the configuration
abandon_notifies ==
    /\ abandonCalls < MaxAbandonCalls
    /\ abandonCalls' = abandonCalls + 1
    /\ IF abandoned
       THEN /\ invariantViolations' = invariantViolations + 1
            /\ UNCHANGED <<abandoned, log>>
       ELSE /\ abandoned' = TRUE
            /\ log' = log \o <<[onLoadingChanged(FALSE) EXCEPT !.abandoned = TRUE],
                                [Mark("abandon") EXCEPT !.abandoned = TRUE,
                                                        !.via = "owner"]>>
            /\ UNCHANGED invariantViolations
    /\ UNCHANGED <<pc, execution, result, dataView, error, promise, env, testerVars, overlayVars, executeVars>>

\* ------------------------------------------------------------------ abandon
\* abandon(): invariant(!this.abandoned); this.abandoned = true
abandon ==
    /\ abandonCalls < MaxAbandonCalls
    /\ abandonCalls' = abandonCalls + 1
    /\ IF abandoned
       THEN /\ invariantViolations' = invariantViolations + 1
            /\ UNCHANGED <<abandoned, log>>
       ELSE /\ abandoned' = TRUE
            /\ log' = Append(log, [Mark("abandon") EXCEPT !.abandoned = TRUE,
                                                          !.via = "owner"])
            /\ UNCHANGED invariantViolations
    /\ UNCHANGED <<pc, execution, result, dataView, error, promise, env, testerVars, overlayVars, executeVars>>

\* initialize() that submits the execution before it reports the loading
\* state
initialize_executeFirst(k, t) ==
    /\ pc = "created"
    /\ LET started == Append(log, [Mark("execute") EXCEPT !.execution = execution,
                                                         !.abandoned = abandoned])
           s == Emit(<<onLoadingChanged(TRUE)>>, 1,
                     [log |-> started, abandoned |-> abandoned,
                      abandonCalls |-> abandonCalls, thrown |-> FALSE], k, t)
       IN  /\ abandoned' = s.abandoned
           /\ abandonCalls' = s.abandonCalls
           /\ log' = s.log
           /\ pc' = "awaitExecute"
           /\ promise' = [state |-> "pending", value |-> Undefined]
    /\ UNCHANGED <<execution, result, dataView, error, invariantViolations, env, testerVars, overlayVars, executeVars>>

\* --------------------------------------------------------------- initialize
\* initialize(): onLoadingChanged({isLoading: true}), then execution.execute()
initialize(k, t) ==
    /\ pc = "created"
    /\ LET s == Run(<<onLoadingChanged(TRUE)>>, k, t)
       IN  /\ abandoned' = s.abandoned
           /\ abandonCalls' = s.abandonCalls
           /\ IF s.thrown
              THEN /\ pc' = "done"
                   /\ promise' = [state |-> "threw", value |-> Undefined]
                   /\ log' = s.log
              ELSE /\ pc' = "awaitExecute"
                   /\ promise' = [state |-> "pending", value |-> Undefined]
                   /\ log' = Append(s.log, [Mark("execute") EXCEPT
                                              !.execution = execution,
                                              !.abandoned = s.abandoned])
    /\ UNCHANGED <<execution, result, dataView, error, invariantViolations, env, testerVars, overlayVars, executeVars>>

\* ------------------------------------------------- backend promises settle
executeResolves(res) ==
    /\ pc = "awaitExecute"
    /\ pc' = "executeThen"
    /\ result' = res
    /\ log' = Append(log, [Mark("execute.resolved") EXCEPT !.abandoned = abandoned])
    /\ UNCHANGED <<abandoned, execution, dataView, error, promise,
                   abandonCalls, invariantViolations, env, testerVars, overlayVars, executeVars>>

executeRejects(err) ==
    /\ pc = "awaitExecute"
    /\ pc' = "executeCatch"
    /\ error' = err
    /\ log' = Append(log, [Mark("execute.rejected") EXCEPT !.abandoned = abandoned])
    /\ UNCHANGED <<abandoned, execution, result, dataView, promise,
                   abandonCalls, invariantViolations, env, testerVars, overlayVars, executeVars>>

readWindowResolves(dv) ==
    /\ pc = "awaitReadWindow"
    /\ pc' = "readWindowThen"
    /\ dataView' = dv
    /\ log' = Append(log, [Mark("readWindow.resolved") EXCEPT !.abandoned = abandoned])
    /\ UNCHANGED <<abandoned, execution, result, error, promise,
                   abandonCalls, invariantViolations, env, testerVars, overlayVars, executeVars>>

readWindowRejects(err) ==
    /\ pc = "awaitReadWindow"
    /\ pc' = "readWindowCatch"
    /\ error' = err
    /\ log' = Append(log, [Mark("readWindow.rejected") EXCEPT !.abandoned = abandoned])
    /\ UNCHANGED <<abandoned, execution, result, dataView, promise,
                   abandonCalls, invariantViolations, env, testerVars, overlayVars, executeVars>>

\* ------------------------------------------------ reactions of initialize()
\* result.readWindow(offset, size)
readWindow(offset, size) ==
    [Mark("readWindow") EXCEPT !.offset = offset, !.size = size]

\* then-reaction of execute() that gives up when the flag is set
executeThen_stopsWhenAbandoned ==
    /\ pc = "executeThen"
    /\ IF abandoned
       THEN /\ pc' = "done"
            /\ promise' = Resolved(Undefined)
            /\ UNCHANGED log
       ELSE /\ pc' = "awaitReadWindow"
            /\ log' = Append(log, [readWindow(<<0, 0>>, <<env.pageSize, COLS_PER_PAGE>>)
                                     EXCEPT !.abandoned = abandoned])
            /\ UNCHANGED promise
    /\ UNCHANGED <<abandoned, execution, result, dataView, error,
                   abandonCalls, invariantViolations, env, testerVars, overlayVars, executeVars>>

\* .then((result) => result.readWindow([0, 0], [pageSize, COLS_PER_PAGE]) ...)
executeThen ==
    /\ pc = "executeThen"
    /\ pc' = "awaitReadWindow"
    /\ log' = Append(log, [readWindow(<<0, 0>>, <<env.pageSize, COLS_PER_PAGE>>)
                             EXCEPT !.abandoned = abandoned])
    /\ UNCHANGED <<abandoned, execution, result, dataView, error, promise,
                   abandonCalls, invariantViolations, env, testerVars, overlayVars, executeVars>>

\* success path that pushes the data before the export function is ready
readWindowThenScript_exportLast(table, dv) ==
    <<onLoadingChanged(FALSE),
      pushData("config", dv, tableGetAvailableDrillTargets(table)),
      onExportReady(table)>>

\* success path that pushes the drill targets without the data view
readWindowThenScript_noDataView(table, dv) ==
    <<onLoadingChanged(FALSE),
      onExportReady(table),
      pushData("config", NoDataView, tableGetAvailableDrillTargets(table))>>

\* callbacks of the success path, in program order
readWindowThenScript(table, dv) ==
    <<onLoadingChanged(FALSE),
      onExportReady(table),
      pushData("config", dv, tableGetAvailableDrillTargets(table))>>

\* success reaction that leaves the promise pending when the flag is set
readWindowThen_hangs(k, t) ==
    /\ pc = "readWindowThen"
    /\ IF abandoned
       THEN /\ pc' = "done"
            /\ UNCHANGED <<abandoned, error, log, abandonCalls, promise>>
       ELSE LET table == createTableFacade(result, dataView)
                s == Run(readWindowThenScript(table, dataView), k, t)
            IN  /\ abandoned' = s.abandoned
                /\ abandonCalls' = s.abandonCalls
                /\ log' = s.log
                /\ IF s.thrown
                   THEN /\ pc' = "readWindowCatch"
                        /\ error' = ThrownError
                        /\ UNCHANGED promise
                   ELSE /\ pc' = "done"
                        /\ promise' = Resolved(table)
                        /\ UNCHANGED error
    /\ UNCHANGED <<execution, result, dataView, invariantViolations, env, testerVars, overlayVars, executeVars>>

\* success reaction without the check of the abandoned flag
readWindowThen_unchecked(k, t) ==
    /\ pc = "readWindowThen"
    /\ LET table == createTableFacade(result, dataView)
           s == Run(readWindowThenScript(table, dataView), k, t)
       IN  /\ abandoned' = s.abandoned
           /\ abandonCalls' = s.abandonCalls
           /\ log' = s.log
           /\ IF s.thrown
              THEN /\ pc' = "readWindowCatch"
                   /\ error' = ThrownError
                   /\ UNCHANGED promise
              ELSE /\ pc' = "done"
                   /\ promise' = Resolved(table)
                   /\ UNCHANGED error
    /\ UNCHANGED <<execution, result, dataView, invariantViolations, env, testerVars, overlayVars, executeVars>>

\* success reaction whose exceptions skip the read-failure handler and reach
\* the execute-failure handler
readWindowThen_throwsToOuter(k, t) ==
    /\ pc = "readWindowThen"
    /\ IF abandoned
       THEN /\ pc' = "done"
            /\ promise' = Resolved(Undefined)
            /\ UNCHANGED <<abandoned, error, log, abandonCalls>>
       ELSE LET table == createTableFacade(result, dataView)
                s == IF t = InConstructor
                     THEN [log |-> log, abandoned |-> abandoned,
                           abandonCalls |-> abandonCalls, thrown |-> TRUE]
                     ELSE Run(readWindowThenScript(table, dataView), k, t)
            IN  /\ abandoned' = s.abandoned
                /\ abandonCalls' = s.abandonCalls
                /\ log' = s.log
                /\ IF s.thrown
                   THEN /\ pc' = "executeCatch"
                        /\ error' = ThrownError
                        /\ UNCHANGED promise
                   ELSE /\ pc' = "done"
                        /\ promise' = Resolved(table)
                        /\ UNCHANGED error
    /\ UNCHANGED <<execution, result, dataView, invariantViolations, env, testerVars, overlayVars, executeVars>>

\* .then((dataView) => { if (this.abandoned) return undefined; ... return table })
readWindowThen(k, t) ==
    /\ pc = "readWindowThen"
    /\ IF abandoned
       THEN /\ pc' = "done"
            /\ promise' = Resolved(Undefined)
            /\ UNCHANGED <<abandoned, error, log, abandonCalls>>
       ELSE LET table == createTableFacade(result, dataView)
                s == IF t = InConstructor
                     THEN [log |-> log, abandoned |-> abandoned,
                           abandonCalls |-> abandonCalls, thrown |-> TRUE]
                     ELSE Run(readWindowThenScript(table, dataView), k, t)
            IN  /\ abandoned' = s.abandoned
                /\ abandonCalls' = s.abandonCalls
                /\ log' = s.log
                /\ IF s.thrown
                   THEN /\ pc' = "readWindowCatch"
                        /\ error' = ThrownError
                        /\ UNCHANGED promise
                   ELSE /\ pc' = "done"
                        /\ promise' = Resolved(table)
                        /\ UNCHANGED error
    /\ UNCHANGED <<execution, result, dataView, invariantViolations, env, testerVars, overlayVars, executeVars>>

\* read-failure handler whose no-data branch does not look for the data view
readWindowCatchScript_anyNoData(err, res, exec) ==
    (IF isUnexpectedResponseError(err)
     THEN <<pushData("props", NoDataView, getAvailableDrillTargetsFromExecutionResult(res))>>
     ELSE <<>>)
    \o
    (IF isNoDataError(err)
     THEN <<pushData("config", NoDataView, getAvailableDrillTargets(err.dataView)),
            onLoadingChanged(FALSE)>>
     ELSE <<>>)
    \o
    <<onError(convertError(err), exec)>>

\* read-failure handler whose unexpected-response branch pushes the drill
\* targets instead of reporting the error
readWindowCatchScript_collapsed(err, res, exec) ==
    IF isUnexpectedResponseError(err)
    THEN <<pushData("props", NoDataView, getAvailableDrillTargetsFromExecutionResult(res))>>
    ELSE (IF isNoDataError(err) /\ err.dataView # NoDataView
          THEN <<pushData("config", NoDataView, getAvailableDrillTargets(err.dataView)),
                 onLoadingChanged(FALSE)>>
          ELSE <<>>)
         \o <<onError(convertError(err), exec)>>

\* read-failure handler whose no-data branch does not end the loading state
readWindowCatchScript_noLoadingFalse(err, res, exec) ==
    (IF isUnexpectedResponseError(err)
     THEN <<pushData("props", NoDataView, getAvailableDrillTargetsFromExecutionResult(res))>>
     ELSE <<>>)
    \o
    (IF isNoDataError(err) /\ err.dataView # NoDataView
     THEN <<pushData("config", NoDataView, getAvailableDrillTargets(err.dataView))>>
     ELSE <<>>)
    \o
    <<onError(convertError(err), exec)>>

\* read-failure handler that takes the drill targets of an unexpected
\* response from a data view of the error, as the no-data branch does
readWindowCatchScript_targetsFromDataView(err, res, exec) ==
    (IF isUnexpectedResponseError(err)
     THEN <<pushData("props", NoDataView, getAvailableDrillTargets(err.dataView))>>
     ELSE <<>>)
    \o
    (IF isNoDataError(err) /\ err.dataView # NoDataView
     THEN <<pushData("config", NoDataView, getAvailableDrillTargets(err.dataView)),
            onLoadingChanged(FALSE)>>
     ELSE <<>>)
    \o
    <<onError(convertError(err), exec)>>

\* callbacks of the read-failure handler, in program order
readWindowCatchScript(err, res, exec) ==
    (IF isUnexpectedResponseError(err)
     THEN <<pushData("props", NoDataView, getAvailableDrillTargetsFromExecutionResult(res))>>
     ELSE <<>>)
    \o
    (IF isNoDataError(err) /\ err.dataView # NoDataView
     THEN <<pushData("config", NoDataView, getAvailableDrillTargets(err.dataView)),
            onLoadingChanged(FALSE)>>
     ELSE <<>>)
    \o
    <<onError(convertError(err), exec)>>

\* read-failure handler without the check of the abandoned flag
readWindowCatch_unchecked(k, t) ==
    /\ pc = "readWindowCatch"
    /\ LET s == Run(readWindowCatchScript(error, result, execution), k, t)
       IN  /\ abandoned' = s.abandoned
           /\ abandonCalls' = s.abandonCalls
           /\ log' = s.log
           /\ IF s.thrown
              THEN /\ pc' = "executeCatch"
                   /\ error' = ThrownError
                   /\ UNCHANGED promise
              ELSE /\ pc' = "done"
                   /\ promise' = Resolved(Undefined)
                   /\ UNCHANGED error
    /\ UNCHANGED <<execution, result, dataView, invariantViolations, env, testerVars, overlayVars, executeVars>>

\* read-failure handler that swallows the exceptions of its own callbacks
readWindowCatch_swallows(k, t) ==
    /\ pc = "readWindowCatch"
    /\ pc' = "done"
    /\ promise' = Resolved(Undefined)
    /\ IF abandoned
       THEN UNCHANGED <<abandoned, log, abandonCalls>>
       ELSE LET s == Run(readWindowCatchScript(error, result, execution), k, t)
            IN  /\ abandoned' = s.abandoned
                /\ abandonCalls' = s.abandonCalls
                /\ log' = s.log
    /\ UNCHANGED <<execution, result, dataView, error, invariantViolations, env,
                   testerVars, overlayVars, executeVars>>

\* .catch((error) => { if (this.abandoned) return undefined; ... onError(...) })
readWindowCatch(k, t) ==
    /\ pc = "readWindowCatch"
    /\ IF abandoned
       THEN /\ pc' = "done"
            /\ promise' = Resolved(Undefined)
            /\ UNCHANGED <<abandoned, error, log, abandonCalls>>
       ELSE LET s == Run(readWindowCatchScript(error, result, execution), k, t)
            IN  /\ abandoned' = s.abandoned
                /\ abandonCalls' = s.abandonCalls
                /\ log' = s.log
                /\ IF s.thrown
                   THEN /\ pc' = "executeCatch"
                        /\ error' = ThrownError
                        /\ UNCHANGED promise
                   ELSE /\ pc' = "done"
                        /\ promise' = Resolved(Undefined)
                        /\ UNCHANGED error
    /\ UNCHANGED <<execution, result, dataView, invariantViolations, env, testerVars, overlayVars, executeVars>>

\* execute-failure handler that treats the error like a read failure
executeCatchScript_asReadFailure(err, exec) ==
    readWindowCatchScript(err, NoResult, exec)

\* callbacks of the execute-failure handler
executeCatchScript(err, exec) == <<onError(convertError(err), exec)>>

\* execute-failure handler that submits the execution once more before it
\* gives up
executeCatch_retries(k, t) ==
    /\ pc = "executeCatch"
    /\ IF Len(SelectSeq(log, LAMBDA e : e.name = "execute")) < 2
       THEN /\ pc' = "awaitExecute"
            /\ log' = Append(log, [Mark("execute") EXCEPT !.execution = execution,
                                                          !.abandoned = abandoned])
            /\ UNCHANGED <<abandoned, abandonCalls, promise>>
       ELSE /\ pc' = "done"
            /\ promise' = Resolved(Undefined)
            /\ UNCHANGED <<abandoned, log, abandonCalls>>
    /\ UNCHANGED <<execution, result, dataView, error, invariantViolations, env, testerVars, overlayVars, executeVars>>

\* execute-failure handler that re-throws after reporting the error
executeCatch_rethrows(k, t) ==
    /\ pc = "executeCatch"
    /\ pc' = "done"
    /\ IF abandoned
       THEN /\ promise' = Resolved(Undefined)
            /\ UNCHANGED <<abandoned, log, abandonCalls>>
       ELSE LET s == Run(executeCatchScript(error, execution), k, t)
            IN  /\ abandoned' = s.abandoned
                /\ abandonCalls' = s.abandonCalls
                /\ log' = s.log
                /\ promise' = [state |-> "rejected", value |-> Undefined]
    /\ UNCHANGED <<execution, result, dataView, error, invariantViolations, env, testerVars, overlayVars, executeVars>>

\* .catch((error) => { if (this.abandoned) return undefined; onError(...) })
executeCatch(k, t) ==
    /\ pc = "executeCatch"
    /\ pc' = "done"
    /\ IF abandoned
       THEN /\ promise' = Resolved(Undefined)
            /\ UNCHANGED <<abandoned, log, abandonCalls>>
       ELSE LET s == Run(executeCatchScript(error, execution), k, t)
            IN  /\ abandoned' = s.abandoned
                /\ abandonCalls' = s.abandonCalls
                /\ log' = s.log
                /\ promise' = IF s.thrown
                              THEN [state |-> "rejected", value |-> Undefined]
                              ELSE Resolved(Undefined)
    /\ UNCHANGED <<execution, result, dataView, error, invariantViolations, env, testerVars, overlayVars, executeVars>>

\* =================================================== DashboardTester
\* Test harness around the dashboard store: a middleware records the actions
\* that pass through the store and resolves one promise per action type;
\* waitFor races that promise against a timer.
MaxActions == 2
MaxWaits == 1
MaxResets == 1
MaxTimeout == 0

\* action types: <<prefix, name>>
ActionTypes ==
    {<<"@@redux/", "INIT">>, <<"GDC.DASH/", "EVT.LOADED">>}
startsWith(type, prefix) == type[1] = prefix

NoAction == [type |-> <<"", "">>, id |-> 0]
\* the actions that pass through the store are numbered in dispatch order
Actions == [type : ActionTypes, id : 1..MaxActions]

\* waitFor(actionType, timeout = 1000)
DefaultTimeout == 1000
Omitted == -1
Timeouts == {Omitted} \cup 0..MaxTimeout
EffectiveTimeout(timeout) == IF timeout = Omitted THEN DefaultTimeout ELSE timeout

NoMonitor == [exists |-> FALSE, calls |-> 0, promise |-> 0]
NoTimeoutError == [type |-> <<"", "">>, timeout |-> 0]

TesterInit ==
    /\ monitoredActions = [t \in ActionTypes |-> NoMonitor]
    /\ capturedActions = <<>>
    /\ promises = <<>>
    /\ forwarded = <<>>
    /\ waits = <<>>
    /\ now = 0
    /\ resetAt = <<>>

\* getOrCreateMonitoredAction that counts the creation of the entry as a call
getOrCreateMonitoredAction_countsCreation(h, type) ==
    IF h.monitoredActions[type].exists
    THEN h
    ELSE [monitoredActions |->
             [h.monitoredActions EXCEPT ![type] =
                 [exists |-> TRUE, calls |-> 1, promise |-> Len(h.promises) + 1]],
          promises |->
             Append(h.promises, [type |-> type, state |-> "pending", value |-> NoAction])]

\* getOrCreateMonitoredAction(actionType) on a harness state
\* h = [monitoredActions, promises]: the existing entry, or a new entry
\* with a new pending promise
getOrCreateMonitoredAction(h, type) ==
    IF h.monitoredActions[type].exists
    THEN h
    ELSE [monitoredActions |->
             [h.monitoredActions EXCEPT ![type] =
                 [exists |-> TRUE, calls |-> 0, promise |-> Len(h.promises) + 1]],
          promises |->
             Append(h.promises, [type |-> type, state |-> "pending", value |-> NoAction])]

\* resolve(action) that replaces the value of a promise already resolved
resolve_overwrites(ps, p, action) ==
    [ps EXCEPT ![p] = [@ EXCEPT !.state = "resolved", !.value = action]]

\* resolve(action) of a monitored action: settles the promise the first time
resolve(ps, p, action) ==
    IF ps[p].state = "pending"
    THEN [ps EXCEPT ![p] = [@ EXCEPT !.state = "resolved", !.value = action]]
    ELSE ps

\* Promise.race reaction: the pending waits on a resolved promise resolve
\* with its value
Race(ws, ps) ==
    [i \in 1..Len(ws) |->
        IF ws[i].state = "pending" /\ ps[ws[i].promise].state = "resolved"
        THEN [ws[i] EXCEPT !.state = "resolved", !.value = ps[ws[i].promise].value]
        ELSE ws[i]]

\* testerMiddleware: onActionCaptured(action) unless the type starts with
\* "@@redux/", then next(action)
dispatch(action) ==
    /\ Len(forwarded) < MaxActions
    /\ action.id = Len(forwarded) + 1
    /\ forwarded' = Append(forwarded, action)
    /\ IF startsWith(action.type, "@@redux/")
       THEN UNCHANGED <<monitoredActions, capturedActions, promises, waits>>
       ELSE LET h == getOrCreateMonitoredAction(
                        [monitoredActions |-> monitoredActions, promises |-> promises],
                        action.type)
                p == h.monitoredActions[action.type].promise
                ps == resolve(h.promises, p, action)
            IN  /\ capturedActions' = Append(capturedActions, action)
                /\ monitoredActions' =
                      [h.monitoredActions EXCEPT ![action.type].calls = @ + 1]
                /\ promises' = ps
                /\ waits' = Race(waits, ps)
    /\ UNCHANGED <<now, resetAt, vars, overlayVars, executeVars>>

\* waitFor(actionType, timeout): Promise.race of the monitored promise and
\* a timer that rejects after the timeout
waitFor(type, timeout) ==
    /\ Len(waits) < MaxWaits
    /\ LET h == getOrCreateMonitoredAction(
                    [monitoredActions |-> monitoredActions, promises |-> promises], type)
           p == h.monitoredActions[type].promise
           w == [type |-> type, promise |-> p,
                 timeout |-> EffectiveTimeout(timeout),
                 deadline |-> now + EffectiveTimeout(timeout),
                 fired |-> FALSE, state |-> "pending",
                 value |-> NoAction, error |-> NoTimeoutError,
                 arg |-> timeout, calledAt |-> now, from |-> Len(forwarded),
                 resetsBefore |-> Len(resetAt), upto |-> 0]
       IN  /\ monitoredActions' = h.monitoredActions
           /\ promises' = h.promises
           /\ waits' = Race(Append(waits, w), h.promises)
    /\ UNCHANGED <<capturedActions, forwarded, now, resetAt, vars, overlayVars, executeVars>>

\* the timer of wait i expires: timers expire in the order of their
\* deadlines; reject(...) settles the race unless it has settled already
timerFires(i) ==
    /\ i \in 1..Len(waits)
    /\ ~waits[i].fired
    /\ \A j \in 1..Len(waits) :
          ~waits[j].fired => \/ waits[i].deadline < waits[j].deadline
                             \/ (waits[i].deadline = waits[j].deadline /\ i <= j)
    /\ now' = waits[i].deadline
    /\ waits' = [waits EXCEPT ![i] =
                    IF @.state = "pending"
                    THEN [@ EXCEPT !.fired = TRUE, !.upto = Len(forwarded),
                                   !.state = "rejected",
                                   !.error = [type |-> waits[i].type,
                                                     timeout |-> waits[i].timeout]]
                    ELSE [@ EXCEPT !.fired = TRUE, !.upto = Len(forwarded)]]
    /\ UNCHANGED <<monitoredActions, capturedActions, promises, forwarded, resetAt,
                   vars, overlayVars, executeVars>>

\* resetMonitors() that forgets the captured actions but keeps the monitors
resetMonitors_keepsMonitors ==
    /\ Len(resetAt) < MaxResets
    /\ resetAt' = Append(resetAt, Len(forwarded))
    /\ capturedActions' = <<>>
    /\ UNCHANGED <<monitoredActions, promises, forwarded, waits, now, vars, overlayVars, executeVars>>

\* resetMonitors(): both collections are replaced by empty ones
resetMonitors ==
    /\ Len(resetAt) < MaxResets
    /\ resetAt' = Append(resetAt, Len(forwarded))
    /\ capturedActions' = <<>>
    /\ monitoredActions' = [t \in ActionTypes |-> NoMonitor]
    /\ UNCHANGED <<promises, forwarded, waits, now, vars, overlayVars, executeVars>>

DispatchStep == \E action \in Actions : dispatch(action)
WaitForStep == \E type \in ActionTypes, timeout \in Timeouts : waitFor(type, timeout)
TimerFiresStep == \E i \in 1..MaxWaits : timerFires(i)

TesterNext ==
    \/ DispatchStep
    \/ WaitForStep
    \/ TimerFiresStep
    \/ resetMonitors

\* =========================================================== Overlay
\* Overlay component: registers document/window listeners according to its
\* props while it is mounted and closes itself (props.onClose) on outside
\* clicks, parent scrolls, drags and the escape key.
INIT_STATE_ALIGN == -500
KEY_CODE_ESCAPE == 27

\* const events = [...]; an absent target or requiredProp is ""
events ==
    <<[name |-> "click", handler |-> "closeOnOutsideClick",
       target |-> "document", requiredProp |-> ""],
      [name |-> "mousedown", handler |-> "onDocumentMouseDown",
       target |-> "document", requiredProp |-> "closeOnOutsideClick"],
      [name |-> "goodstrap.scrolled", handler |-> "closeOnParentScroll",
       target |-> "", requiredProp |-> ""],
      [name |-> "goodstrap.drag", handler |-> "closeOnMouseDrag",
       target |-> "", requiredProp |-> ""],
      [name |-> "keydown", handler |-> "closeOnEscape",
       target |-> "", requiredProp |-> ""]>>
eventProps == {events[i].handler : i \in 1..Len(events)}

\* the props that decide about listeners, by truthiness; onDocumentMouseDown
\* is not a prop of the component
OverlayProps == {p \in [eventProps -> BOOLEAN] : ~p["onDocumentMouseDown"]}
defaultProps == [h \in eventProps |-> FALSE]
\* props[name], undefined for a name that is no prop
Prop(props, name) == name \in DOMAIN props /\ props[name]

\* a registered listener: target, event name, handler
ListenerOf(event) ==
    <<IF event.target = "" THEN "window" ELSE event.target, event.name, event.handler>>
ResizeListener == <<"window", "resize", "resizeHandler">>
ListenerKeys == {ListenerOf(events[i]) : i \in 1..Len(events)} \cup {ResizeListener}

\* target.addEventListener(name, handler): a listener that is registered
\* already is not registered again
addEventListener(ls, key) == IF ls[key] > 0 THEN ls ELSE [ls EXCEPT ![key] = 1]
removeEventListener(ls, key) == [ls EXCEPT ![key] = 0]

\* updateListeners(method, props) from event i on
RECURSIVE updateListeners(_, _, _, _)
updateListeners(method, props, ls, i) ==
    IF i > Len(events) THEN ls
    ELSE LET event == events[i]
             next == IF Prop(props, event.handler) \/ Prop(props, event.requiredProp)
                     THEN IF method = "add"
                          THEN addEventListener(ls, ListenerOf(event))
                          ELSE removeEventListener(ls, ListenerOf(event))
                     ELSE ls
         IN  updateListeners(method, props, next, i + 1)
addListeners(props, ls) == updateListeners("add", props, ls, 1)
removeListeners(props, ls) == updateListeners("remove", props, ls, 1)

\* DOM events as the handlers see them
NoEvent ==
    [defaultPrevented |-> FALSE, inChildOverlay |-> FALSE, inOverlay |-> FALSE,
     inIgnoredRef |-> FALSE, inIgnoredClass |-> FALSE, onParent |-> FALSE,
     keyCode |-> 0]
ClickEvents ==
    {[NoEvent EXCEPT !.defaultPrevented = a, !.inChildOverlay = b, !.inOverlay = c,
                     !.inIgnoredRef = d, !.inIgnoredClass = e] :
        a \in BOOLEAN, b \in BOOLEAN, c \in BOOLEAN, d \in BOOLEAN, e \in BOOLEAN}
MouseDownEvents == {[NoEvent EXCEPT !.inOverlay = c] : c \in BOOLEAN}
ScrollEvents == {[NoEvent EXCEPT !.onParent = c] : c \in BOOLEAN}
KeyEvents == {[NoEvent EXCEPT !.keyCode = c] : c \in {KEY_CODE_ESCAPE, KEY_CODE_ESCAPE + 1}}

NoCall ==
    [handler |-> "", event |-> NoEvent, answer |-> FALSE, closed |-> FALSE,
     threw |-> FALSE]
Call(handler, e, closed) ==
    [NoCall EXCEPT !.handler = handler, !.event = e, !.closed = closed]

\* alignments the overlay can be given
AlignCoords == {INIT_STATE_ALIGN, INIT_STATE_ALIGN + 1, 0}
Alignments == [left : AlignCoords, top : AlignCoords, right : {0}]

OverlayInitWith(props) ==
    /\ isComponentMounted = FALSE
    /\ clickedInside = FALSE
    /\ alignment = [left |-> INIT_STATE_ALIGN, top |-> INIT_STATE_ALIGN, right |-> 0]
    /\ overlayProps = props
    /\ listeners = [key \in ListenerKeys |-> 0]
    /\ overlayPhase = "constructed"
    /\ lastCall = NoCall
OverlayInit == OverlayInitWith(defaultProps)

\* componentDidMount()
componentDidMount ==
    /\ overlayPhase = "constructed"
    /\ overlayPhase' = "mounted"
    /\ isComponentMounted' = TRUE
    /\ listeners' = addListeners(overlayProps, addEventListener(listeners, ResizeListener))
    /\ UNCHANGED <<clickedInside, alignment, overlayProps, lastCall,
                   vars, testerVars, executeVars>>

componentWillReceiveProps_keepsOldListeners(nextProps) ==
    /\ overlayPhase = "mounted"
    /\ listeners' = IF overlayProps # nextProps
                    THEN addListeners(nextProps, listeners)
                    ELSE listeners
    /\ overlayProps' = nextProps
    /\ UNCHANGED <<isComponentMounted, clickedInside, alignment, overlayPhase, lastCall,
                   vars, testerVars, executeVars>>

\* componentWillReceiveProps(nextProps), after which React installs the props
componentWillReceiveProps(nextProps) ==
    /\ overlayPhase = "mounted"
    /\ listeners' = IF overlayProps # nextProps
                    THEN addListeners(nextProps, removeListeners(overlayProps, listeners))
                    ELSE listeners
    /\ overlayProps' = nextProps
    /\ UNCHANGED <<isComponentMounted, clickedInside, alignment, overlayPhase, lastCall,
                   vars, testerVars, executeVars>>

\* componentWillUnmount()
componentWillUnmount ==
    /\ overlayPhase = "mounted"
    /\ overlayPhase' = "unmounted"
    /\ isComponentMounted' = FALSE
    /\ listeners' = removeListeners(overlayProps,
                                    removeEventListener(listeners, ResizeListener))
    /\ UNCHANGED <<clickedInside, alignment, overlayProps, lastCall,
                   vars, testerVars, executeVars>>

exceedsThreshold(firstNumber, secondNumber) ==
    (IF firstNumber >= secondNumber THEN firstNumber - secondNumber
     ELSE secondNumber - firstNumber) > 2
alignExceedsThreshold(firstAlignment, secondAlignment) ==
    \/ exceedsThreshold(firstAlignment.top, secondAlignment.top)
    \/ exceedsThreshold(firstAlignment.left, secondAlignment.left)
    \/ exceedsThreshold(firstAlignment.right, secondAlignment.right)

\* align(), run by the timers of mount and update and by the resize
\* listener while the overlay element exists; optimal is the alignment
\* getOptimalAlignment computes
align(optimal) ==
    /\ overlayPhase = "mounted"
    /\ alignment' = IF alignExceedsThreshold(alignment, optimal)
                    THEN optimal ELSE alignment
    /\ UNCHANGED <<isComponentMounted, clickedInside, overlayProps, listeners,
                   overlayPhase, lastCall, vars, testerVars, executeVars>>

isAligned ==
    alignment.left # INIT_STATE_ALIGN /\ alignment.top # INIT_STATE_ALIGN

hasClickedOnIgnoredNode_forgetsMouseDown(e) ==
    \/ e.defaultPrevented
    \/ e.inChildOverlay
    \/ e.inOverlay
    \/ e.inIgnoredRef
    \/ e.inIgnoredClass

hasClickedOnIgnoredNode(e) ==
    \/ e.defaultPrevented
    \/ e.inChildOverlay
    \/ clickedInside
    \/ e.inOverlay
    \/ e.inIgnoredRef
    \/ e.inIgnoredClass

\* shouldCloseOnClick(e); answer is what props.shouldCloseOnClick(e) returns
shouldCloseOnClick(e, answer) ==
    /\ isComponentMounted
    /\ isAligned
    /\ ~hasClickedOnIgnoredNode(e)
    /\ answer

\* the browser invokes a handler that is registered; a handler of an
\* unmounted overlay can still be invoked by an event that is being
\* dispatched
Invocable(i) ==
    \/ listeners[ListenerOf(events[i])] > 0
    \/ overlayPhase = "unmounted"

\* closeOnOutsideClick(e)
closeOnOutsideClick(e, answer) ==
    /\ Invocable(1)
    /\ lastCall' = [Call("closeOnOutsideClick", e, shouldCloseOnClick(e, answer))
                      EXCEPT !.answer = answer]
    /\ UNCHANGED <<isComponentMounted, clickedInside, alignment, overlayProps,
                   listeners, overlayPhase, vars, testerVars, executeVars>>

\* onDocumentMouseDown(e): overlayRef.current is null once the overlay is
\* unmounted, and the call throws
onDocumentMouseDown(e) ==
    /\ Invocable(2)
    /\ IF overlayPhase = "mounted"
       THEN /\ clickedInside' = e.inOverlay
            /\ lastCall' = Call("onDocumentMouseDown", e, FALSE)
       ELSE /\ lastCall' = [Call("onDocumentMouseDown", e, FALSE) EXCEPT !.threw = TRUE]
            /\ UNCHANGED clickedInside
    /\ UNCHANGED <<isComponentMounted, alignment, overlayProps, listeners,
                   overlayPhase, vars, testerVars, executeVars>>

\* closeOnParentScroll(e)
closeOnParentScroll(e) ==
    /\ Invocable(3)
    /\ lastCall' = Call("closeOnParentScroll", e, isComponentMounted /\ e.onParent)
    /\ UNCHANGED <<isComponentMounted, clickedInside, alignment, overlayProps,
                   listeners, overlayPhase, vars, testerVars, executeVars>>

\* closeOnMouseDrag()
closeOnMouseDrag ==
    /\ Invocable(4)
    /\ lastCall' = Call("closeOnMouseDrag", NoEvent, isComponentMounted)
    /\ UNCHANGED <<isComponentMounted, clickedInside, alignment, overlayProps,
                   listeners, overlayPhase, vars, testerVars, executeVars>>

\* closeOnEscape(e)
closeOnEscape(e) ==
    /\ Invocable(5)
    /\ lastCall' = Call("closeOnEscape", e,
                        /\ isComponentMounted
                        /\ overlayProps["closeOnEscape"]
                        /\ e.keyCode = KEY_CODE_ESCAPE)
    /\ UNCHANGED <<isComponentMounted, clickedInside, alignment, overlayProps,
                   listeners, overlayPhase, vars, testerVars, executeVars>>

ReceivePropsStep == \E nextProps \in OverlayProps : componentWillReceiveProps(nextProps)
AlignStep == \E optimal \in Alignments : align(optimal)
ClickStep == \E e \in ClickEvents, answer \in BOOLEAN : closeOnOutsideClick(e, answer)
MouseDownStep == \E e \in MouseDownEvents : onDocumentMouseDown(e)
ScrollStep == \E e \in ScrollEvents : closeOnParentScroll(e)
KeyDownStep == \E e \in KeyEvents : closeOnEscape(e)

OverlayNext ==
    \/ componentDidMount
    \/ ReceivePropsStep
    \/ componentWillUnmount
    \/ AlignStep
    \/ ClickStep
    \/ MouseDownStep
    \/ ScrollStep
    \/ closeOnMouseDrag
    \/ KeyDownStep

\* =========================================================== Execute
\* Execute component: runs an execution through a data table on mount and
\* whenever afm or resultSpec change, and keeps {result, isLoading, error}.
MaxStarts == 2

\* afm and resultSpec by value: isEqual is a deep comparison
ExecuteProps == [afm : {"afm1", "afm2"}, resultSpec : {"none", "resultSpec1"}]
ExecuteResults == {"responses1", "responses2"}
NullResult == "null"

\* ErrorCodes of the data layer and the key of the fallback entry
HTTP_TOO_LARGE == "413"
HTTP_BAD_REQUEST == "400"
UNKNOWN_ERROR == "UNKNOWN_ERROR"

\* the error the data table reports: null, an error without response, or an
\* error whose response has a status ("" : none)
NullErrorObject == [isNull |-> TRUE, hasResponse |-> FALSE, status |-> ""]
ErrorObjects ==
    {NullErrorObject, [isNull |-> FALSE, hasResponse |-> FALSE, status |-> ""]}
    \cup {[isNull |-> FALSE, hasResponse |-> TRUE, status |-> s] :
            s \in {"", HTTP_TOO_LARGE, HTTP_BAD_REQUEST, "500", UNKNOWN_ERROR}}

statusMap ==
    [code \in {HTTP_TOO_LARGE, HTTP_BAD_REQUEST, UNKNOWN_ERROR} |->
        IF code = HTTP_TOO_LARGE THEN "DATA_TOO_LARGE_TO_COMPUTE"
        ELSE IF code = HTTP_BAD_REQUEST THEN "BAD_REQUEST"
        ELSE "UNKNOWN_ERROR"]
\* error && error.response && error.response.status || UNKNOWN_ERROR
errorCode(err) ==
    IF ~err.isNull /\ err.hasResponse /\ err.status # ""
    THEN err.status ELSE UNKNOWN_ERROR
statusOf(err) ==
    statusMap[IF errorCode(err) \in DOMAIN statusMap
              THEN errorCode(err) ELSE UNKNOWN_ERROR]

NullError == [status |-> "null", error |-> NullErrorObject]
newError(err) == [status |-> statusOf(err), error |-> err]

LoadingChanged(isLoading) ==
    [name |-> "onLoadingChanged", isLoading |-> isLoading, error |-> NullError]
ErrorEmitted(err) ==
    [name |-> "onError", isLoading |-> FALSE, error |-> err]

ExecuteInitWith(props) ==
    /\ executeState = [result |-> NullResult, isLoading |-> TRUE, error |-> NullError]
    /\ executeProps = props
    /\ executePhase = "constructed"
    /\ outstanding = 0
    /\ emitted = <<>>
ExecuteInit == ExecuteInitWith([afm |-> "afm1", resultSpec |-> "none"])

Starts == Len(SelectSeq(emitted, LAMBDA ev : ev.name = "onLoadingChanged" /\ ev.isLoading))

\* runExecution(props)
runExecution(props) ==
    /\ Starts < MaxStarts
    /\ executeState' = [result |-> NullResult, isLoading |-> TRUE, error |-> NullError]
    /\ emitted' = Append(emitted, LoadingChanged(TRUE))
    /\ outstanding' = outstanding + 1

\* componentWillMount()
componentWillMount ==
    /\ executePhase = "constructed"
    /\ executePhase' = "mounted"
    /\ runExecution(executeProps)
    /\ UNCHANGED <<executeProps, vars, testerVars, overlayVars>>

\* hasPropsChanged(nextProps, ['afm', 'resultSpec'])
hasPropsChanged(nextProps) ==
    nextProps.afm # executeProps.afm \/ nextProps.resultSpec # executeProps.resultSpec

\* Execute.componentWillReceiveProps(nextProps), after which React installs
\* the props
receiveExecuteProps(nextProps) ==
    /\ executePhase = "mounted"
    /\ executeProps' = nextProps
    /\ IF hasPropsChanged(nextProps)
       THEN runExecution(nextProps)
       ELSE UNCHANGED <<executeState, emitted, outstanding>>
    /\ UNCHANGED <<executePhase, vars, testerVars, overlayVars>>

\* dataTable.onData((result) => ...)
onData(res) ==
    /\ outstanding > 0
    /\ outstanding' = outstanding - 1
    /\ executeState' = [executeState EXCEPT !.result = res, !.isLoading = FALSE]
    /\ emitted' = Append(emitted, LoadingChanged(FALSE))
    /\ UNCHANGED <<executeProps, executePhase, vars, testerVars, overlayVars>>

onDataTableError_reportsFirst(err) ==
    /\ outstanding > 0
    /\ outstanding' = outstanding - 1
    /\ executeState' = [result |-> NullResult, isLoading |-> FALSE,
                        error |-> newError(err)]
    /\ emitted' = emitted \o <<ErrorEmitted(newError(err)), LoadingChanged(FALSE)>>
    /\ UNCHANGED <<executeProps, executePhase, vars, testerVars, overlayVars>>

\* dataTable.onError((error) => ...)
onDataTableError(err) ==
    /\ outstanding > 0
    /\ outstanding' = outstanding - 1
    /\ executeState' = [result |-> NullResult, isLoading |-> FALSE,
                        error |-> newError(err)]
    /\ emitted' = emitted \o <<LoadingChanged(FALSE), ErrorEmitted(newError(err))>>
    /\ UNCHANGED <<executeProps, executePhase, vars, testerVars, overlayVars>>

ReceiveExecutePropsStep == \E nextProps \in ExecuteProps : receiveExecuteProps(nextProps)
OnDataStep == \E res \in ExecuteResults : onData(res)
OnDataTableErrorStep == \E err \in ErrorObjects : onDataTableError(err)

ExecuteNext ==
    \/ componentWillMount
    \/ ReceiveExecutePropsStep
    \/ OnDataStep
    \/ OnDataTableErrorStep

\* ------------------------------------------------------------------- Next
InitializeStep ==
    \E k \in AbandonPoints(<<onLoadingChanged(TRUE)>>),
       t \in ThrowPoints(<<onLoadingChanged(TRUE)>>) : initialize(k, t)
ExecuteResolvesStep == \E res \in Results : executeResolves(res)
ExecuteRejectsStep == \E err \in BackendErrors : executeRejects(err)
ReadWindowResolvesStep == \E dv \in DataViews : readWindowResolves(dv)
ReadWindowRejectsStep == \E err \in BackendErrors : readWindowRejects(err)
ReadWindowThenStep ==
    \E k \in AbandonPoints(readWindowThenScript(Undefined, NoDataView)),
       t \in ThrowPoints(readWindowThenScript(Undefined, NoDataView))
              \cup ConstructorThrowPoints :
        readWindowThen(k, t)
ReadWindowCatchStep ==
    \E k \in AbandonPoints(readWindowCatchScript(error, result, execution)),
       t \in ThrowPoints(readWindowCatchScript(error, result, execution))
              \cup ConversionThrowPoints :
        readWindowCatch(k, t)
ExecuteCatchStep ==
    \E k \in AbandonPoints(executeCatchScript(error, execution)),
       t \in ThrowPoints(executeCatchScript(error, execution))
              \cup ConversionThrowPoints :
        executeCatch(k, t)

Next ==
    \/ abandon
    \/ InitializeStep
    \/ ExecuteResolvesStep
    \/ ExecuteRejectsStep
    \/ executeThen
    \/ ReadWindowResolvesStep
    \/ ReadWindowRejectsStep
    \/ ReadWindowThenStep
    \/ ReadWindowCatchStep
    \/ ExecuteCatchStep

allVars == <<vars, testerVars, overlayVars, executeVars>>

\* the initializer on its own: the harness is not used
Init ==
    /\ \E e \in WellBehaved : InitWith(e)
    /\ TesterInit
    /\ OverlayInit
    /\ ExecuteInit

Spec == Init /\ [][Next]_allVars

\* FairSpec: every backend promise eventually settles and every reaction
\* whose promise has settled eventually runs (the job queue is drained);
\* nothing obliges the owner to call initialize() or abandon().
Fairness ==
    /\ WF_vars(ExecuteResolvesStep \/ ExecuteRejectsStep)
    /\ WF_vars(ReadWindowResolvesStep \/ ReadWindowRejectsStep)
    /\ WF_vars(executeThen)
    /\ WF_vars(ReadWindowThenStep)
    /\ WF_vars(ReadWindowCatchStep)
    /\ WF_vars(ExecuteCatchStep)

FairSpec == Spec /\ Fairness

\* Spec: the collaborators honour their contract (callbacks return normally,
\* props.pushData is present).
\* SpecThrowing: the same program with callbacks that may throw and an
\* optional props.pushData.
InitThrowing ==
    /\ \E e \in [callbacksThrow : {TRUE}, propsPushData : BOOLEAN,
                  pageSize : PageSizes] : InitWith(e)
    /\ TesterInit
    /\ OverlayInit
    /\ ExecuteInit
SpecThrowing == InitThrowing /\ [][Next]_allVars

\* the harness on its own: the initializer is not used.  Timers that have
\* been started expire.
InitializerIdle ==
    /\ InitWith([callbacksThrow |-> FALSE, propsPushData |-> TRUE, pageSize |-> 1])
    /\ execution = 1
    /\ TesterInit
    /\ OverlayInit
    /\ ExecuteInit
TesterSpec == InitializerIdle /\ [][TesterNext]_allVars
TesterFairSpec == TesterSpec /\ WF_allVars(TimerFiresStep)

\* the Overlay on its own, constructed with any props
OverlayAlone ==
    /\ InitWith([callbacksThrow |-> FALSE, propsPushData |-> TRUE, pageSize |-> 1])
    /\ execution = 1
    /\ TesterInit
    /\ \E props \in OverlayProps : OverlayInitWith(props)
    /\ ExecuteInit
OverlaySpec == OverlayAlone /\ [][OverlayNext]_allVars

\* the Execute component on its own, constructed with any props
ExecuteAlone ==
    /\ InitWith([callbacksThrow |-> FALSE, propsPushData |-> TRUE, pageSize |-> 1])
    /\ execution = 1
    /\ TesterInit
    /\ OverlayInit
    /\ \E props \in ExecuteProps : ExecuteInitWith(props)
ExecuteSpec == ExecuteAlone /\ [][ExecuteNext]_allVars

\* ---------------------------------------------------------- trace helpers
IsCallback(e) == e.name \in CallbackNames
Callbacks(l) == SelectSeq(l, IsCallback)
Named(l, name) == SelectSeq(l, LAMBDA e : e.name = name)
Count(l, name) == Len(Named(l, name))
Has(l, name) == \E i \in 1..Len(l) : l[i].name = name
\* position of the first entry with that name, 0 if there is none
Idx(l, name) ==
    IF Has(l, name)
    THEN CHOOSE i \in 1..Len(l) :
            /\ l[i].name = name
            /\ \A j \in 1..(i - 1) : l[j].name # name
    ELSE 0

Done == pc = "done"
\* callbacks emitted after the initial onLoadingChanged({isLoading: true})
LaterCallbacks == SubSeq(Callbacks(log), 2, Len(Callbacks(log)))
NamesOf(l) == [i \in 1..Len(l) |-> l[i].name]

\* the settlement of the last backend operation of the run: execute() if it
\* rejects, readWindow() otherwise
LastSettleIdx ==
    IF Has(log, "execute.rejected") THEN Idx(log, "execute.rejected")
    ELSE IF Has(log, "readWindow.resolved") THEN Idx(log, "readWindow.resolved")
    ELSE Idx(log, "readWindow.rejected")

\* ------------------------------------------------------------------ C1
SuccessOutcome ==
    /\ promise.state = "resolved"
    /\ promise.value.tag = "TableFacade"
    /\ NamesOf(LaterCallbacks) = <<"onLoadingChanged", "onExportReady", "pushData">>
ErrorOutcome ==
    /\ promise = Resolved(Undefined)
    /\ Count(log, "onError") = 1
    /\ Count(log, "onExportReady") = 0
    /\ LaterCallbacks[Len(LaterCallbacks)].name = "onError"
AbandonOutcome ==
    /\ promise = Resolved(Undefined)
    /\ abandoned
    /\ LaterCallbacks = <<>>

\* C1: every finished initialize() run has exactly one terminal outcome
\* (facade after the success callbacks, undefined after onError, or
\* undefined with no further callback after an abandon); no run ends with
\* none, two, or a mix of them.  Stated for configuration callbacks that
\* return normally, under every interleaving of settlements, reactions and
\* abandon().
C1_ExactlyOneOutcome ==
    Done =>
        /\ SuccessOutcome \/ ErrorOutcome \/ AbandonOutcome
        /\ ~(SuccessOutcome /\ ErrorOutcome)
        /\ ~(SuccessOutcome /\ AbandonOutcome)
        /\ ~(ErrorOutcome /\ AbandonOutcome)

C1_Witness ==
    /\ Done
    /\ ErrorOutcome
    /\ Has(log, "readWindow.rejected")
    /\ Count(log, "pushData") = 1

\* ------------------------------------------------------------------ C2
Failed == Has(log, "execute.rejected") \/ Has(log, "readWindow.rejected")
FailureIdx ==
    IF Has(log, "execute.rejected") THEN Idx(log, "execute.rejected")
    ELSE Idx(log, "readWindow.rejected")

\* C2: the promise returned by initialize() never rejects; a run in which
\* execute() or readWindow() failed, with any kind of error, ends with the
\* promise resolved (with undefined), after exactly one onError unless the
\* run was abandoned, in which case nothing is emitted after the failure.
\* Stated for configuration callbacks that return normally.
C2_NeverRejects ==
    /\ promise.state \notin {"rejected", "threw"}
    /\ (Done /\ Failed) =>
          /\ promise = Resolved(Undefined)
          /\ \/ Count(log, "onError") = 1
             \/ /\ abandoned
                /\ \A i \in (FailureIdx + 1)..Len(log) : ~IsCallback(log[i])

C2_Witness ==
    /\ Done
    /\ Has(log, "execute.rejected")
    /\ error.kind = "UNEXPECTED_HTTP"
    /\ Count(log, "onError") = 1
    /\ promise = Resolved(Undefined)

\* ------------------------------------------------------------------ C3
AbandonIdx == Idx(log, "abandon")
\* abandon() took effect after initialize() had started and before the last
\* backend operation of the run settled
AbandonedInFlight ==
    /\ Has(log, "abandon")
    /\ Has(log, "onLoadingChanged")
    /\ Idx(log, "onLoadingChanged") < AbandonIdx
    /\ LastSettleIdx = 0 \/ AbandonIdx < LastSettleIdx

\* C3: after an abandon() that happens once initialize() has started and
\* before the last in-flight operation settles, no configuration callback is
\* invoked any more, whatever execute() and readWindow() settle with, and
\* the promise resolves to undefined.
C3_AbandonInFlightSilences ==
    AbandonedInFlight =>
        /\ \A i \in (AbandonIdx + 1)..Len(log) : ~IsCallback(log[i])
        /\ promise.state \in {"pending", "resolved"}
        /\ Done => promise = Resolved(Undefined)

C3_Witness ==
    /\ AbandonedInFlight
    /\ Done
    /\ Has(log, "readWindow.resolved")
    /\ Idx(log, "execute.resolved") > AbandonIdx
    /\ promise = Resolved(Undefined)

\* ------------------------------------------------------------------ C4
\* C4: no configuration callback is invoked while abandoned is true,
\* whenever abandon() was called.
C4_NoCallbackWhileAbandoned ==
    \A i \in 1..Len(log) : IsCallback(log[i]) => ~log[i].abandoned

\* ------------------------------------------------------------------ C5
\* C5: if execute() and readWindow() succeed and abandon() is never called,
\* the callbacks are exactly onLoadingChanged(true), onLoadingChanged(false),
\* onExportReady, pushData({dataView, availableDrillTargets}) with the data
\* view readWindow() returned; onError is not called and the promise
\* resolves with the facade of that execution result and data view.
C5_SuccessPath ==
    (Done /\ abandonCalls = 0 /\ Has(log, "readWindow.resolved")) =>
        LET table == createTableFacade(result, dataView)
        IN  /\ result \in Results
            /\ dataView \in DataViews
            /\ Callbacks(log) =
                  <<onLoadingChanged(TRUE),
                    onLoadingChanged(FALSE),
                    onExportReady(table),
                    pushData("config", dataView, tableGetAvailableDrillTargets(table))>>
            /\ Count(log, "onError") = 0
            /\ promise = Resolved(table)
            /\ promise.value.result = result
            /\ promise.value.dataView = dataView

C5_Witness ==
    /\ Done
    /\ abandonCalls = 0
    /\ Has(log, "readWindow.resolved")
    /\ promise.state = "resolved"
    /\ promise.value.tag = "TableFacade"
    /\ promise.value.dataView = 2

\* ------------------------------------------------------------------ C6
NoDataWithView ==
    /\ Has(log, "readWindow.rejected")
    /\ isNoDataError(error)
    /\ error.dataView # NoDataView

\* C6: if execute() succeeds, readWindow() fails with a no-data error that
\* carries a data view, and abandon() is never called: pushData is called
\* once, without dataView and with the drill targets of the attached view,
\* onLoadingChanged(false) and onError are called once each, onExportReady
\* is not called and the promise resolves to undefined.
C6_NoDataWithDataView ==
    (Done /\ abandonCalls = 0 /\ NoDataWithView) =>
        /\ Named(log, "pushData") =
              <<pushData("config", NoDataView, getAvailableDrillTargets(error.dataView))>>
        /\ Named(log, "onLoadingChanged") =
              <<onLoadingChanged(TRUE), onLoadingChanged(FALSE)>>
        /\ Named(log, "onError") = <<onError(convertError(error), execution)>>
        /\ Count(log, "onExportReady") = 0
        /\ promise = Resolved(Undefined)

C6_Witness ==
    /\ Done
    /\ abandonCalls = 0
    /\ NoDataWithView
    /\ error.dataView = 2
    /\ Count(log, "pushData") = 1

\* ------------------------------------------------------------------ C7
UnexpectedResponse ==
    /\ Has(log, "readWindow.rejected")
    /\ isUnexpectedResponseError(error)

\* C7: if execute() succeeds, readWindow() fails with an unexpected-response
\* error and abandon() is never called: pushData is called once with the
\* drill targets of the execution result and no data view, onError is called
\* once, after that pushData, and the promise resolves to undefined.
C7_UnexpectedResponse ==
    (Done /\ abandonCalls = 0 /\ UnexpectedResponse) =>
        /\ result \in Results
        /\ Named(log, "pushData") =
              <<pushData("props", NoDataView,
                         getAvailableDrillTargetsFromExecutionResult(result))>>
        /\ Named(log, "onError") = <<onError(convertError(error), execution)>>
        /\ Idx(log, "pushData") < Idx(log, "onError")
        /\ promise = Resolved(Undefined)

C7_Witness ==
    /\ Done
    /\ abandonCalls = 0
    /\ UnexpectedResponse
    /\ result = 2
    /\ Count(log, "pushData") = 1
    /\ Count(log, "onError") = 1

\* ------------------------------------------------------------------ C8
\* C8: if execute() fails, with any error, and abandon() is never called:
\* readWindow() is not invoked, onError is called once with the converted
\* error and the execution, pushData and onExportReady are not called and
\* the promise resolves to undefined.
C8_ExecuteFails ==
    (Done /\ abandonCalls = 0 /\ Has(log, "execute.rejected")) =>
        /\ error \in BackendErrors
        /\ ~Has(log, "readWindow")
        /\ Callbacks(log) =
              <<onLoadingChanged(TRUE), onError(convertError(error), execution)>>
        /\ promise = Resolved(Undefined)

C8_Witness ==
    /\ Done
    /\ abandonCalls = 0
    /\ Has(log, "execute.rejected")
    /\ isNoDataError(error)
    /\ error.dataView # NoDataView
    /\ Count(log, "onError") = 1

\* ------------------------------------------------------------------ C9
\* C9: an abandon() on an instance whose flag is already true throws and
\* leaves the flag true; the first abandon() on a non-abandoned instance
\* does not throw and sets the flag.
C9_DoubleAbandonThrows ==
    [][abandonCalls' = abandonCalls + 1 =>
          IF abandoned
          THEN invariantViolations' = invariantViolations + 1 /\ abandoned'
          ELSE invariantViolations' = invariantViolations /\ abandoned']_vars

C9_Witness ==
    /\ abandoned
    /\ abandonCalls = 2
    /\ invariantViolations = 1

\* ------------------------------------------------------------------ C10
\* what the collaborators can observe: callbacks and backend calls
IsObservable(e) == IsCallback(e) \/ e.name \in {"execute", "readWindow"}
Observable(l) == SelectSeq(l, IsObservable)

\* C10: an abandon() after initialize() completed successfully changes the
\* abandoned flag only: no callback is invoked, no backend call is issued
\* and the resolved value stays the same.
C10_AbandonAfterSuccess ==
    [][(Done /\ SuccessOutcome /\ ~abandoned /\ abandonCalls' = abandonCalls + 1) =>
          /\ abandoned'
          /\ Observable(log') = Observable(log)
          /\ promise' = promise
          /\ UNCHANGED <<pc, execution, result, dataView, error>>]_vars

C10_Witness ==
    /\ Done
    /\ SuccessOutcome
    /\ abandoned
    /\ log[Len(log)].name = "abandon"
    /\ log[Len(log)].via = "owner"
    /\ log[Len(log) - 1].name = "pushData"


\* ------------------------------------------------------------------ C11
\* C11 as stated: every finished run made exactly one execute() call and
\* exactly one readWindow() call, whatever its outcome.
C11_OneExecuteOneReadWindow ==
    Done => Count(log, "execute") = 1 /\ Count(log, "readWindow") = 1

\* C11 amended: a run makes exactly one execute() call and at most one
\* readWindow() call, exactly one once the reaction to a resolved execute()
\* has run (also when abandoned) and none when execute() rejects; neither
\* call is repeated.
C11_OneExecuteAtMostOneReadWindow ==
    /\ Count(log, "execute") = IF pc = "created" THEN 0 ELSE 1
    /\ Count(log, "execute.resolved") + Count(log, "execute.rejected") <= 1
    /\ Count(log, "readWindow") =
          IF Has(log, "execute.resolved") /\ pc # "executeThen" THEN 1 ELSE 0
    /\ Count(log, "readWindow.resolved") + Count(log, "readWindow.rejected") <= 1
    /\ Has(log, "execute.rejected") => Count(log, "readWindow") = 0

C11_Witness ==
    /\ Done
    /\ Has(log, "execute.rejected")
    /\ Count(log, "execute") = 1
    /\ Count(log, "readWindow") = 0
    /\ Count(log, "onError") = 1


\* ------------------------------------------------------------------ C12
\* the step is an abandon() call of the owner that took effect
OwnerAbandons ==
    /\ Len(log') = Len(log) + 1
    /\ log'[Len(log')].name = "abandon"
    /\ log'[Len(log')].via = "owner"

\* C12: abandon() only sets the flag and cancels nothing: the backend
\* operation in flight stays in flight, and once the reaction to a resolved
\* execute() has run, readWindow([0, 0], [pageSize, COLS_PER_PAGE]) has been
\* issued, abandoned or not, and has settled before the run finishes.
C12_AbandonDoesNotCancel ==
    /\ [](LET calls == Named(log, "readWindow")
          IN  /\ (Has(log, "execute.resolved") /\ pc # "executeThen") =>
                    /\ Len(calls) = 1
                    /\ calls[1].offset = <<0, 0>>
                    /\ calls[1].size = <<env.pageSize, COLS_PER_PAGE>>
              /\ (Done /\ Has(log, "execute.resolved")) =>
                    Has(log, "readWindow.resolved") \/ Has(log, "readWindow.rejected"))
    /\ [][OwnerAbandons =>
            /\ abandoned'
            /\ UNCHANGED <<pc, execution, result, dataView, error, promise, env>>]_vars

C12_Witness ==
    /\ Done
    /\ abandoned
    /\ AbandonIdx < Idx(log, "execute.resolved")
    /\ Idx(log, "execute.resolved") < Idx(log, "readWindow")
    /\ Has(log, "readWindow.resolved")
    /\ Named(log, "readWindow")[1].size = <<2, COLS_PER_PAGE>>


\* ------------------------------------------------------------------ C13
\* C13: initialize() invokes onLoadingChanged({isLoading: true}) within the
\* call itself and before execute(): it is the first callback and the first
\* observable event of every run, and execute() is the next one.
C13_LoadingFirst ==
    LET obs == Observable(log)
    IN  IF pc = "created"
        THEN obs = <<>>
        ELSE /\ Len(obs) >= 2
             /\ obs[1].name = "onLoadingChanged"
             /\ obs[1].isLoading
             /\ obs[1].via = "config"
             /\ obs[2].name = "execute"
             /\ obs[2].execution = execution
             /\ \A i \in 2..Len(obs) : ~(obs[i].name = "onLoadingChanged" /\ obs[i].isLoading)

C13_Witness ==
    /\ pc = "awaitExecute"
    /\ NamesOf(Observable(log)) = <<"onLoadingChanged", "execute">>
    /\ promise.state = "pending"


\* ------------------------------------------------------------------ C14
\* C14: abandoned starts false; it only ever changes from false to true, in
\* an abandon() call, and is written at most once: no reaction of
\* initialize() and no failed second abandon() resets or rewrites it.
C14_AbandonedMonotone ==
    /\ ~abandoned
    /\ [](Count(log, "abandon") = IF abandoned THEN 1 ELSE 0)
    /\ [][/\ abandoned => abandoned'
          /\ abandoned' # abandoned => abandonCalls' = abandonCalls + 1
          /\ abandoned => Count(log', "abandon") = Count(log, "abandon")]_vars

C14_Witness ==
    /\ abandoned
    /\ invariantViolations >= 1
    /\ Done
    /\ Count(log, "abandon") = 1


\* ------------------------------------------------------------------ C16
\* C16: the callbacks of a run are emitted one after the other, after the
\* backend operation they react to has settled and before the promise
\* resolves, in a fixed order: onLoadingChanged(false), onExportReady,
\* pushData on success; pushData, onLoadingChanged(false), onError for a
\* no-data error with a data view; pushData, onError for an unexpected
\* response.
C16_CallbackOrder ==
    /\ ~Done => promise.state \in {"none", "pending"}
    /\ \A i \in 1..Len(log) :
          (IsCallback(log[i]) /\ i > Idx(log, "onLoadingChanged")) =>
              /\ LastSettleIdx > 0
              /\ i > LastSettleIdx
              /\ log[i].name = "onLoadingChanged" => ~log[i].isLoading
    /\ (Done /\ LaterCallbacks # <<>> /\ Has(log, "readWindow.resolved")) =>
          NamesOf(LaterCallbacks) = <<"onLoadingChanged", "onExportReady", "pushData">>
    /\ (Done /\ LaterCallbacks # <<>> /\ NoDataWithView) =>
          NamesOf(LaterCallbacks) = <<"pushData", "onLoadingChanged", "onError">>
    /\ (Done /\ LaterCallbacks # <<>> /\ UnexpectedResponse) =>
          NamesOf(LaterCallbacks) = <<"pushData", "onError">>

C16_Witness ==
    /\ Done
    /\ NoDataWithView
    /\ NamesOf(LaterCallbacks) = <<"pushData", "onLoadingChanged", "onError">>
    /\ LastSettleIdx < Idx(log, "pushData")


\* ------------------------------------------------------------------ C17
FailureHandlerRuns ==
    /\ pc \in {"readWindowCatch", "executeCatch"}
    /\ pc' # pc
    /\ ~abandoned

\* C17: onError is invoked exactly once, with the converted error and the
\* execution, by every failure handler that runs on a non-abandoned
\* instance, whatever the kind of the error; no other step invokes it, so
\* successful and abandoned runs have no onError and no run has two.
C17_OnErrorExactlyOnce ==
    /\ [](/\ Count(log, "onError") <= 1
          /\ Has(log, "readWindow.resolved") => Count(log, "onError") = 0)
    /\ [][LET before == Named(log, "onError")
              after == Named(log', "onError")
          IN  IF FailureHandlerRuns
              THEN /\ Len(after) = Len(before) + 1
                   /\ [after[Len(after)] EXCEPT !.abandoned = FALSE] =
                         onError(convertError(error), execution)
              ELSE after = before]_vars

C17_Witness ==
    /\ Done
    /\ Has(log, "readWindow.rejected")
    /\ error.kind = "OTHER"
    /\ Count(log, "onError") = 1
    /\ promise = Resolved(Undefined)

\* ------------------------------------------------------------------ C18
OtherReadFailure ==
    /\ Has(log, "readWindow.rejected")
    /\ ~isUnexpectedResponseError(error)
    /\ ~(isNoDataError(error) /\ error.dataView # NoDataView)

\* C18: if readWindow() fails with an error that is neither an unexpected
\* response nor a no-data error with a data view, and abandon() is never
\* called, the only callback after onLoadingChanged(true) is one onError;
\* pushData, onExportReady and onLoadingChanged(false) are not called and
\* the promise resolves to undefined.
C18_OtherErrorOnlyOnError ==
    (Done /\ abandonCalls = 0 /\ OtherReadFailure) =>
        /\ error \in BackendErrors
        /\ Callbacks(log) =
              <<onLoadingChanged(TRUE), onError(convertError(error), execution)>>
        /\ Count(log, "pushData") = 0
        /\ Count(log, "onExportReady") = 0
        /\ Count(log, "onLoadingChanged") = 1
        /\ promise = Resolved(Undefined)

C18_Witness ==
    /\ Done
    /\ abandonCalls = 0
    /\ Has(log, "readWindow.rejected")
    /\ isNoDataError(error)
    /\ error.dataView = NoDataView
    /\ Count(log, "onError") = 1


\* ------------------------------------------------------------------ C19
\* a reaction of initialize() that starts with the flag set observes it:
\* it calls nothing and the run ends with undefined
ObservesAbandon ==
    /\ Observable(log') = Observable(log)
    /\ pc' = "done"
    /\ promise' = Resolved(Undefined)

\* C19 as stated: the flag is checked at every continuation boundary, also
\* between the settlement of execute() and the read-window step.
C19_CheckedAtEveryBoundary ==
    [][(/\ abandoned
        /\ pc \in {"executeThen", "executeCatch", "readWindowThen", "readWindowCatch"}
        /\ pc' # pc) => ObservesAbandon]_vars

\* C19 amended: the flag is checked by the reactions to the settlement of
\* readWindow() (resolved or rejected) and to the rejection of execute();
\* the reaction to a resolved execute() does not read it and issues
\* readWindow() in any case, so an abandon() made while execute() is in
\* flight is observed only after readWindow() has settled.
C19_CheckedAfterReadWindowAndOnExecuteFailure ==
    [][/\ (/\ abandoned
           /\ pc \in {"executeCatch", "readWindowThen", "readWindowCatch"}
           /\ pc' # pc) => ObservesAbandon
       /\ (pc = "executeThen" /\ pc' # pc) =>
             /\ pc' = "awaitReadWindow"
             /\ Count(log', "readWindow") = Count(log, "readWindow") + 1
             /\ promise' = promise]_vars

C19_Witness ==
    /\ Done
    /\ abandoned
    /\ AbandonIdx < Idx(log, "execute.resolved")
    /\ Has(log, "readWindow")
    /\ Has(log, "readWindow.rejected")
    /\ Count(log, "onError") = 0
    /\ promise = Resolved(Undefined)


\* ------------------------------------------------------------------ C20
AwaitingBackend == pc \in {"awaitExecute", "awaitReadWindow"}

\* C20: if execute() and then readWindow() eventually settle, the promise
\* returned by initialize() eventually resolves, abandoned or not; the
\* initializer has no timeout: as long as a backend promise is pending the
\* returned promise is pending and no callback but the initial
\* onLoadingChanged(true) has been invoked.
C20_EventuallyResolves ==
    /\ [](AwaitingBackend => (promise.state = "pending" /\ LaterCallbacks = <<>>))
    /\ [][(AwaitingBackend /\ pc' = pc) =>
             (promise' = promise /\ Callbacks(log') = Callbacks(log))]_vars
    /\ (promise.state = "pending") ~> (promise.state = "resolved")

C20_Witness ==
    /\ promise.state = "resolved"
    /\ abandoned
    /\ invariantViolations = 0
    /\ Idx(log, "readWindow") < AbandonIdx
    /\ AbandonIdx < Idx(log, "readWindow.resolved")


\* ------------------------------------------------------------------ C15
Min(S) == CHOOSE x \in S : \A y \in S : x <= y
Settled(w) == w.state \in {"resolved", "rejected"}

\* C15 as stated, last sentence: an action of the awaited type that passes
\* through the store after the waitFor call and before its timeout resolves
\* the wait.
C15_DispatchAlwaysResolves ==
    \A i \in 1..Len(waits) :
        LET w == waits[i]
            last == IF w.fired THEN w.upto ELSE Len(forwarded)
        IN  (\E j \in (w.from + 1)..last : forwarded[j].type = w.type) =>
                w.state = "resolved"

\* the actions that can resolve the wait: those of its type that the
\* middleware captures, between the last resetMonitors() before the call and
\* the next resetMonitors(), up to the expiry of the timer
EpochStart(w) == IF w.resetsBefore = 0 THEN 0 ELSE resetAt[w.resetsBefore]
EpochEnd(w) ==
    IF Len(resetAt) > w.resetsBefore THEN resetAt[w.resetsBefore + 1]
    ELSE Len(forwarded)
WindowEnd(w) ==
    IF w.fired /\ w.upto < EpochEnd(w) THEN w.upto ELSE EpochEnd(w)
Candidates(w) ==
    {j \in (EpochStart(w) + 1)..WindowEnd(w) :
        /\ forwarded[j].type = w.type
        /\ forwarded[j].type[1] # "@@redux/"}

WaitOutcome(w) ==
    IF Candidates(w) # {}
    THEN /\ w.state = "resolved"
         /\ w.value = forwarded[Min(Candidates(w))]
    ELSE IF w.fired
    THEN /\ w.state = "rejected"
         /\ w.error = [type |-> w.type, timeout |-> w.timeout]
         /\ w.timeout = IF w.arg = Omitted THEN DefaultTimeout ELSE w.arg
         /\ w.deadline = w.calledAt + w.timeout
         /\ now >= w.deadline
    ELSE w.state = "pending"

\* C15 amended: waitFor(actionType, timeout) always settles.  It resolves
\* with the first action of that type, not starting with "@@redux/", that
\* passes through the middleware after the last resetMonitors() before the
\* call (also before the call itself) and before the next resetMonitors(),
\* if there is one before the timeout elapses; otherwise it rejects with the
\* timeout error when the timeout (1000 by default) elapses.
C15_WaitForSettles ==
    /\ [](\A i \in 1..Len(waits) : WaitOutcome(waits[i]))
    /\ []<>(\A i \in 1..Len(waits) : Settled(waits[i]))

C15_Witness ==
    \E i \in 1..Len(waits) :
        /\ waits[i].state = "resolved"
        /\ waits[i].from = 2
        /\ forwarded[1].type = waits[i].type
        /\ forwarded[2].type = waits[i].type
        /\ waits[i].value = forwarded[1]
        /\ waits[i].arg = Omitted


\* ------------------------------------------------------------------ C21
AbandonedBeforeInitialize == Len(log) >= 1 /\ log[1].name = "abandon"

LoadingNotifications == Named(log, "onLoadingChanged")

\* C22: onLoadingChanged({isLoading: false}) is emitted only on the success
\* path and on the no-data-with-data-view path; a run that ends with onError
\* after a failure of execute(), an unexpected-response read failure, any
\* other read failure or a no-data failure without data view has emitted no
\* loading notification but the initial {isLoading: true}.
C22_LoadingFalseOnlyOnTwoPaths ==
    /\ (\E i \in 1..Len(LoadingNotifications) : ~LoadingNotifications[i].isLoading) =>
          (Has(log, "readWindow.resolved") \/ NoDataWithView)
    /\ (Done /\ Has(log, "onError") /\ ~NoDataWithView) =>
          /\ Failed
          /\ LoadingNotifications = <<onLoadingChanged(TRUE)>>
          /\ log[Len(log)].name \in {"onError", "abandon"}
          /\ Callbacks(log)[Len(Callbacks(log))].name = "onError"

C22_Witness ==
    /\ Done
    /\ UnexpectedResponse
    /\ Has(log, "onError")
    /\ LoadingNotifications[Len(LoadingNotifications)].isLoading


\* ------------------------------------------------------------------ C23
IsPrefix(s, l) == Len(s) <= Len(l) /\ s = SubSeq(l, 1, Len(s))
\* the success reaction has thrown and the read-failure handler runs next
ThrewInSuccessPath == pc = "readWindowCatch" /\ Has(log, "readWindow.resolved")

\* C23: if, after a successful readWindow() and without abandonment, the
\* construction of the facade or one of the success callbacks throws, the
\* read-failure handler receives the exception as it receives a readWindow
\* failure: it invokes onError with the converted exception, after the
\* success callbacks emitted before the throw, and the promise resolves to
\* undefined, never to the facade (a handler that throws in turn hands over
\* to the execute-failure handler, as for a readWindow failure).
C23_SuccessPathThrowHandledAsReadFailure ==
    /\ [](ThrewInSuccessPath =>
            /\ error = ThrownError
            /\ promise.state = "pending"
            /\ IsPrefix(NamesOf(LaterCallbacks),
                        <<"onLoadingChanged", "onExportReady", "pushData">>))
    /\ [](error = ThrownError => promise.value = Undefined)
    /\ [][(pc = "readWindowThen" /\ pc' \notin {"readWindowThen", "done"}) =>
             (pc' = "readWindowCatch" /\ error' = ThrownError)]_vars
    /\ [][(ThrewInSuccessPath /\ ~abandoned /\ pc' # pc) =>
             LET reported == Callbacks(log) \o
                                <<onError(convertError(ThrownError), execution)>>
             IN  \/ /\ pc' = "done"
                    /\ Callbacks(log') = reported
                    /\ promise' = Resolved(Undefined)
                 \/ /\ pc' = "executeCatch"
                    /\ Callbacks(log') \in {Callbacks(log), reported}
                    /\ promise' = promise]_vars

C23_Witness ==
    /\ Done
    /\ Has(log, "readWindow.resolved")
    /\ error = ThrownError
    /\ ~abandoned
    /\ NamesOf(LaterCallbacks) = <<"onLoadingChanged", "onExportReady", "onError">>
    /\ promise = Resolved(Undefined)


\* ------------------------------------------------------------------ C24
\* the execute-failure handler runs next because the read-failure handler
\* has thrown
ViaReadHandler == pc = "executeCatch" /\ Has(log, "readWindow")
ReportedByExecuteCatch ==
    Callbacks(log) \o <<onError(convertError(ThrownError), execution)>>

\* C24 as stated: whatever throws inside the read-failure handler (onError,
\* the conversion, pushData or onLoadingChanged), the onError invoked next
\* by the execute-failure handler is the second of the run.
C24_SecondOnErrorAfterAnyThrow ==
    [][(ViaReadHandler /\ ~abandoned /\ Callbacks(log') # Callbacks(log)) =>
          Count(log', "onError") = 2]_vars

\* C24 amended: if a callback or the error conversion throws inside the
\* read-failure handler, the execute-failure handler runs next with the
\* thrown value and, unless the instance has been abandoned meanwhile,
\* invokes onError: for the second time in the run if it was onError that
\* threw, for the first time if pushData, onLoadingChanged or the conversion
\* threw before onError was reached.  If onError (or the conversion) throws
\* inside the execute-failure handler the promise rejects; it rejects in no
\* other way, and a failed run that resolves on a non-abandoned instance has
\* onError as its last callback.
C24_ExecuteCatchAfterReadCatchThrows ==
    /\ [][(pc = "readWindowCatch" /\ pc' \notin {"readWindowCatch", "done"}) =>
             /\ pc' = "executeCatch"
             /\ error' = ThrownError
             /\ promise' = promise
             /\ promise.state = "pending"]_vars
    /\ [](ViaReadHandler => Count(log, "onError") \in {0, 1})
    /\ [][(ViaReadHandler /\ pc' # pc) =>
             /\ pc' = "done"
             /\ IF abandoned
                THEN /\ Callbacks(log') = Callbacks(log)
                     /\ promise' = Resolved(Undefined)
                ELSE \/ /\ Callbacks(log') = ReportedByExecuteCatch
                        /\ Count(log', "onError") = Count(log, "onError") + 1
                        /\ promise' = Resolved(Undefined)
                     \/ /\ Callbacks(log') \in {Callbacks(log), ReportedByExecuteCatch}
                        /\ promise'.state = "rejected"]_vars
    /\ [][promise'.state = "rejected" =>
             (promise.state = "rejected" \/ (pc = "executeCatch" /\ ~abandoned))]_vars
    /\ [](Count(log, "onError") <= 2)
    /\ []((Done /\ Has(log, "readWindow.rejected") /\ ~abandoned
            /\ promise = Resolved(Undefined)) =>
               Callbacks(log)[Len(Callbacks(log))].name = "onError")

C24_Witness ==
    /\ Done
    /\ Has(log, "readWindow.rejected")
    /\ Count(log, "onError") = 2
    /\ promise.state = "rejected"


\* ------------------------------------------------------------------ C25
\* C25: every pushData emission of the initializer goes through the
\* pushData member of the configuration callback set, in the
\* unexpected-response branch as in the success and no-data branches.
C25_PushDataThroughConfig ==
    \A i \in 1..Len(log) : log[i].name = "pushData" => log[i].via = "config"


\* ------------------------------------------------------------------ C26
\* number of actions that had passed through the store at the first
\* resetMonitors() after the call of the wait
NextResetAfter(w) == resetAt[w.resetsBefore + 1]
CapturedIn(type, a, b) ==
    {j \in (a + 1)..b : forwarded[j].type = type /\ ~startsWith(type, "@@redux/")}

\* C26: resetMonitors() discards the monitors without settling them.  A
\* waitFor(T) obtained before a resetMonitors(), for a type not captured by
\* then, is never resolved by an action of type T dispatched after the reset:
\* it stays pending until its timer rejects it.  A waitFor(T) issued after
\* the reset ignores the occurrences of T captured before the reset and
\* resolves only with a later one.
C26_ResetOrphansMonitors ==
    /\ [][Len(resetAt') = Len(resetAt) + 1 =>
             /\ promises' = promises
             /\ waits' = waits
             /\ capturedActions' = <<>>
             /\ \A type \in ActionTypes : monitoredActions'[type] = NoMonitor]_allVars
    /\ [](\A i \in 1..Len(waits) :
            LET w == waits[i]
            IN  /\ (/\ Len(resetAt) > w.resetsBefore
                    /\ CapturedIn(w.type, EpochStart(w), NextResetAfter(w)) = {}) =>
                       /\ w.state # "resolved"
                       /\ w.state = "rejected" <=> w.fired
                /\ (w.resetsBefore >= 1 /\ w.state = "resolved") =>
                       /\ w.value.id > resetAt[w.resetsBefore]
                       /\ w.value = forwarded[w.value.id]
                       /\ w.value.type = w.type)

C26_Witness ==
    \E i \in 1..Len(waits) :
        /\ waits[i].resetsBefore = 0
        /\ resetAt = <<0>>
        /\ Len(forwarded) = 2
        /\ forwarded[1].type = waits[i].type
        /\ ~startsWith(waits[i].type, "@@redux/")
        /\ waits[i].state = "rejected"
        /\ waits[i].upto = 2


\* ------------------------------------------------------------------ C27
\* number of actions that had passed through the store at the last
\* resetMonitors()
LastReset == IF resetAt = <<>> THEN 0 ELSE resetAt[Len(resetAt)]
SinceLastReset == SubSeq(forwarded, LastReset + 1, Len(forwarded))
IsCaptured(action) == action.type[1] # "@@redux/"

\* C27: after any sequence of dispatch, waitFor and resetMonitors, every
\* dispatched action has been forwarded to the next middleware exactly once;
\* capturedActions holds, in dispatch order, exactly the actions seen since
\* the last reset whose type does not start with "@@redux/"; and the calls
\* counter of every monitor equals the number of captured actions of its
\* type since the last reset (0 for a monitor created by waitFor only).
C27_CapturedAndCalls ==
    /\ [][Len(forwarded') # Len(forwarded) =>
             \E action \in Actions :
                 /\ action.id = Len(forwarded) + 1
                 /\ forwarded' = Append(forwarded, action)]_allVars
    /\ [](\A j \in 1..Len(forwarded) : forwarded[j].id = j)
    /\ [](capturedActions = SelectSeq(SinceLastReset, IsCaptured))
    /\ [](\A type \in ActionTypes :
            LET n == Len(SelectSeq(capturedActions, LAMBDA a : a.type = type))
            IN  IF monitoredActions[type].exists
                THEN monitoredActions[type].calls = n
                ELSE n = 0)

C27_Witness ==
    /\ resetAt = <<1>>
    /\ Len(forwarded) = 2
    /\ Len(capturedActions) = 1
    /\ \E type \in ActionTypes :
          monitoredActions[type].exists /\ monitoredActions[type].calls = 0
    /\ \E type \in ActionTypes :
          monitoredActions[type].exists /\ monitoredActions[type].calls = 1


\* ---------------------------------------------------------------- Overlay
\* a step in which handler h has been invoked
Invoked(h) == lastCall' # lastCall /\ lastCall'.handler = h

\* C28: a document click calls onClose only if the component is mounted,
\* the overlay has been aligned (left and top both differ from the initial
\* -500), the event is not on an ignored node (not defaultPrevented, not in
\* a child overlay, the preceding mousedown was not inside the overlay, the
\* target is not inside the overlay, an ignoreClicksOn element or an
\* ignoreClicksOnByClass selector) and props.shouldCloseOnClick(e) returns
\* true; a click on an ignored node never closes the overlay, whatever
\* shouldCloseOnClick returns.
C28_ClickClosesOnlyWhenAllowed ==
    [][(Invoked("closeOnOutsideClick") /\ lastCall'.closed) =>
          /\ isComponentMounted
          /\ alignment.left # -500
          /\ alignment.top # -500
          /\ ~lastCall'.event.defaultPrevented
          /\ ~lastCall'.event.inChildOverlay
          /\ ~clickedInside
          /\ ~lastCall'.event.inOverlay
          /\ ~lastCall'.event.inIgnoredRef
          /\ ~lastCall'.event.inIgnoredClass
          /\ lastCall'.answer]_allVars

C28_Witness ==
    /\ lastCall.handler = "closeOnOutsideClick"
    /\ lastCall.closed
    /\ lastCall.answer
    /\ overlayPhase = "mounted"
    /\ ~clickedInside

\* the events the props enable: handler prop or requiredProp truthy
EnabledBy(props, event) ==
    \/ props[event.handler]
    \/ event.requiredProp # "" /\ props[event.requiredProp]

\* C29: for any sequence of mount, prop changes and unmount, while the
\* overlay is mounted the registered listeners of the events list are those
\* of the events enabled by the current props, each registered once; after
\* componentWillUnmount none of them and no resize listener is registered,
\* and a scroll, drag, click or escape handler invoked after unmount never
\* calls props.onClose.
C29_ListenersFollowProps ==
    /\ [](overlayPhase = "mounted" =>
            \A i \in 1..Len(events) :
                listeners[ListenerOf(events[i])] =
                    IF EnabledBy(overlayProps, events[i]) THEN 1 ELSE 0)
    /\ [](overlayPhase = "unmounted" =>
            \A key \in ListenerKeys : listeners[key] = 0)
    /\ [][(/\ overlayPhase = "unmounted"
           /\ \E h \in {"closeOnParentScroll", "closeOnMouseDrag",
                        "closeOnOutsideClick", "closeOnEscape"} : Invoked(h))
          => ~lastCall'.closed]_allVars

C29_Witness ==
    /\ overlayPhase = "unmounted"
    /\ overlayProps["closeOnMouseDrag"]
    /\ ~overlayProps["closeOnEscape"]
    /\ lastCall.handler = "closeOnMouseDrag"
    /\ ~lastCall.closed


\* ---------------------------------------------------------------- Execute
\* the status a reported error must carry
ExpectedStatus(err) ==
    IF ~err.isNull /\ err.hasResponse /\ err.status = "413"
    THEN "DATA_TOO_LARGE_TO_COMPUTE"
    ELSE IF ~err.isNull /\ err.hasResponse /\ err.status = "400"
    THEN "BAD_REQUEST"
    ELSE "UNKNOWN_ERROR"
\* steps of the component: an execution is started, the data table answers
ExecutionStarts == outstanding' = outstanding + 1
TableAnswers == outstanding' = outstanding - 1
DataEvent ==
    /\ executeState'.result \in ExecuteResults
    /\ executeState'.error = executeState.error
    /\ emitted' = Append(emitted, LoadingChanged(FALSE))
ErrorEvent ==
    /\ executeState'.result = "null"
    /\ executeState'.error # NullError
    /\ executeState'.error.status = ExpectedStatus(executeState'.error.error)
    /\ emitted' = emitted \o <<LoadingChanged(FALSE),
                               [name |-> "onError", isLoading |-> FALSE,
                                error |-> executeState'.error]>>

\* C30: for any interleaving of execution starts (mount, or a prop change
\* where afm or resultSpec differs) with data and error events of the data
\* table: whenever state.isLoading is true, state.result and state.error
\* are null; each execution start emits onLoadingChanged({isLoading: true});
\* each data or error event sets isLoading to false and emits
\* onLoadingChanged({isLoading: false}); on an error event result is null,
\* onLoadingChanged(false) is emitted before onError, and the reported
\* status is DATA_TOO_LARGE_TO_COMPUTE or BAD_REQUEST for the matching HTTP
\* status and UNKNOWN_ERROR for every other or missing status.
C30_ExecuteLoadingAndErrors ==
    /\ [](executeState.isLoading =>
            executeState.result = "null" /\ executeState.error = NullError)
    /\ [][(\/ executePhase = "constructed" /\ executePhase' = "mounted"
           \/ executeProps' # executeProps) <=> ExecutionStarts]_allVars
    /\ [][ExecutionStarts =>
            /\ executeState'.isLoading
            /\ emitted' = Append(emitted, LoadingChanged(TRUE))]_allVars
    /\ [][TableAnswers =>
            /\ ~executeState'.isLoading
            /\ DataEvent \/ ErrorEvent]_allVars
    /\ [][outstanding' # outstanding \/ emitted' = emitted]_allVars

C30_Witness ==
    /\ Starts = 2
    /\ outstanding = 0
    /\ \E i \in 2..Len(emitted) :
          /\ emitted[i].name = "onError"
          /\ emitted[i].error.status = "BAD_REQUEST"
          /\ emitted[i - 1] = LoadingChanged(FALSE)
    /\ executeState.result \in ExecuteResults
    /\ executeState.error.status = "BAD_REQUEST"

====
